---- MODULE Spec2Model ----
(***************************************************************************)
(* A model of mediaclassifier.Classifier: the three directory walks        *)
(* (sort_videos, list_music_metadata, export_music_metadata) over a small  *)
(* file system, and overwrite_music_metadata_from_csv over a tag store.    *)
(*                                                                         *)
(* File and directory names are sequences of one-character strings, so     *)
(* that the suffix test, the substring filter and the regular expression   *)
(* are computed on the characters.  A path is the sequence of names below  *)
(* self.directory: << >> is self.directory itself and                      *)
(* os.path.join(self.directory, a, b) is << a, b >>.                       *)
(***************************************************************************)
EXTENDS Integers, Sequences, FiniteSets, TLC

\* ------------------------------------------------------------------ bounds
MaxFiles == 2
MaxRows == 2

\* ------------------------------------------------------------------- names
SortedVideosName == <<"S","o","r","t","e","d","V","i","d","e","o","s">>
DirectoryName == <<"M","e","d","i","a">>
DirA == <<"A">>
DirB == <<"B">>

LeadingX == <<"x","2","0","2","3","0","1","1","5","_","1","4","1","5","0","0",".","m","p","4">>
OddDateMOV == <<"2","0","2","3","1","3","4","5","_","1","4","1","5","0","0",".","M","O","V">>
NotesTxt == <<"n","o","t","e","s",".","t","x","t">>

\* Audio files; what the tag store does with each is Behaviour, below.
SongMp3 == <<"a",".","m","p","3">>
SongFLAC == <<"b",".","F","L","A","C">>
FileTagFlac == <<"f",".","f","l","a","c">>
NoTagsMp3 == <<"n",".","m","p","3">>
BrokenMp3 == <<"e",".","m","p","3">>
ReadOnlyMp3 == <<"r",".","m","p","3">>
StrictMp3 == <<"s",".","m","p","3">>
GhostMp3 == <<"g",".","m","p","3">>
CoverJpg == <<"c",".","j","p","g">>

AudioTreeNames == {SongMp3, SongFLAC, FileTagFlac, NoTagsMp3, BrokenMp3, CoverJpg}

VideoTreeNames == {LeadingX, OddDateMOV, NotesTxt}

\* ------------------------------------------------------- strings of Python
Digits == {"0","1","2","3","4","5","6","7","8","9"}
UpperLetters == <<"A","B","C","D","E","F","G","H","I","J","K","L","M","N","O","P","Q","R","S","T","U","V","W","X","Y","Z">>
LowerLetters == <<"a","b","c","d","e","f","g","h","i","j","k","l","m","n","o","p","q","r","s","t","u","v","w","x","y","z">>

LowerChar(c) ==
    IF \E i \in 1..26 : UpperLetters[i] = c
    THEN LowerLetters[CHOOSE i \in 1..26 : UpperLetters[i] = c]
    ELSE c

\* str.lower()
Lower(s) == [i \in 1..Len(s) |-> LowerChar(s[i])]

\* str.endswith(suffix)
EndsWith(s, suf) ==
    /\ Len(suf) <= Len(s)
    /\ SubSeq(s, Len(s) - Len(suf) + 1, Len(s)) = suf

\* sub in s
Contains(sub, s) ==
    \E i \in 1..(Len(s) + 1) :
        /\ i + Len(sub) - 1 <= Len(s)
        /\ SubSeq(s, i, i + Len(sub) - 1) = sub

VideoSuffixes == { <<".","m","p","4">>, <<".","a","v","i">>, <<".","m","k","v">>, <<".","m","o","v">> }
VideoExts == { <<"m","p","4">>, <<"a","v","i">>, <<"m","k","v">>, <<"m","o","v">> }
AudioSuffixes == { <<".","m","p","3">>, <<".","f","l","a","c">> }

\* file.lower().endswith(('.mp4', '.avi', '.mkv', '.mov'))
IsVideo(file) == \E suf \in VideoSuffixes : EndsWith(Lower(file), suf)

\* file.lower().endswith(('.mp3', '.flac'))
IsAudio(file) == \E suf \in AudioSuffixes : EndsWith(Lower(file), suf)

\* The compiled date_pattern tried at position pos of file:
\* (\d{4})(\d{2})(\d{2})_\d{6}\.(mp4|avi|mkv|mov)$ with re.IGNORECASE.
\* $ matches at the end of the string and before a newline that ends it.
PatternMatchesAt(file, pos) ==
    /\ pos + 18 <= Len(file)
    /\ \A i \in pos..(pos + 7) : file[i] \in Digits
    /\ file[pos + 8] = "_"
    /\ \A i \in (pos + 9)..(pos + 14) : file[i] \in Digits
    /\ file[pos + 15] = "."
    /\ Lower(SubSeq(file, pos + 16, pos + 18)) \in VideoExts
    /\ \/ pos + 18 = Len(file)
       \/ pos + 19 = Len(file) /\ file[Len(file)] = "\n"

\* date_pattern.search(file): the pattern tried at every position.
DatePatternSearch(file) == \E pos \in 1..Len(file) : PatternMatchesAt(file, pos)

\* date_pattern.match(file): the pattern tried at position 0 only.
DatePatternMatch(file) == PatternMatchesAt(file, 1)

\* ------------------------------------------------------------------- paths
Root == << >>
Parent(p) == SubSeq(p, 1, Len(p) - 1)
Basename(p) == p[Len(p)]
\* os.path.join(folder, file)
Join(folder, file) == Append(folder, file)
Prefixes(p) == { SubSeq(p, 1, k) : k \in 0..Len(p) }

\* The date folders made inside the directory the file was found in.
NewFolderInWalkRoot(root, file) ==
    IF DatePatternMatch(file)
    THEN root \o << SubSeq(file, 1, 4), SubSeq(file, 5, 6), SubSeq(file, 7, 8) >>
    ELSE root \o << SortedVideosName >>

\* new_folder of lines 77-83: below self.directory, whatever the directory
\* (root) the file was found in.
NewFolder(root, file) ==
    IF DatePatternMatch(file)
    THEN << SubSeq(file, 1, 4), SubSeq(file, 5, 6), SubSeq(file, 7, 8) >>
    ELSE << SortedVideosName >>

\* The text of a path: self.directory and the names, joined by "/".
RECURSIVE PathStr(_)
PathStr(p) ==
    IF p = << >> THEN DirectoryName
    ELSE PathStr(Parent(p)) \o <<"/">> \o Basename(p)

\* -------------------------------------------------------------- tag values
\* A Python value of a tag or of a parsed cell: kind "scalar" (one atom),
\* "list" or "tuple" (its atoms), or "empty" (the '' a CSV row is padded
\* with).  An atom has a type and its text, a sequence of strings.
Atom(t, s) == [t |-> t, s |-> s]
Scalar(a) == [kind |-> "scalar", items |-> << a >>]
ListOf(as) == [kind |-> "list", items |-> as]
TupleOf(as) == [kind |-> "tuple", items |-> as]
Str(s) == Scalar(Atom("str", s))
EmptyCell == [kind |-> "empty", items |-> << >>]

\* Keys are strings of code points, so that sorted() can compare them.
KeyFile == << 102, 105, 108, 101 >>
KeyArtist == << 97, 114, 116, 105, 115, 116 >>
KeyAlbum == << 97, 108, 98, 117, 109 >>
KeyGenre == << 103, 101, 110, 114, 101 >>

\* ---------------------------------------------------------------- tag store
\* What mutagen does with a file, by its name: "ok"; "none" (MutagenFile
\* returns None); "raise_open" (MutagenFile raises); "raise_set" (setting a
\* key raises); "raise_save" (save raises).
Behaviour(name) ==
    CASE name = NoTagsMp3 -> "none"
      [] name = BrokenMp3 -> "raise_open"
      [] name = StrictMp3 -> "raise_set"
      [] name = ReadOnlyMp3 -> "raise_save"
      [] OTHER -> "ok"

\* The tags each file holds when the program starts.
InitialTags(name) ==
    CASE name = SongFLAC ->
            (KeyArtist :> ListOf(<< Atom("str", <<"B">>) >>)) @@
            (KeyGenre :> ListOf(<< Atom("str", <<"Pop">>) >>))
      [] name = FileTagFlac ->
            (KeyFile :> ListOf(<< Atom("str", <<"x">>) >>)) @@
            (KeyAlbum :> ListOf(<< Atom("str", <<"L">>) >>))
      [] OTHER -> (KeyArtist :> ListOf(<< Atom("str", <<"A">>) >>))

\* --------------------------------------------------------------- variables
VARIABLES
    command,        \* the operation main() dispatches to
    pattern,        \* self.pattern ("" is << >>)
    ignore_folders, \* self.ignore_folders
    recursive,      \* self.recursive
    dry_run,        \* self.dry_run
    platform,       \* "posix" or "nt": decides os.rename onto an existing file
    dirs,           \* the directories that exist (paths below self.directory)
    files,          \* path of each regular file |-> the path it started at
    dirs0, files0,  \* the tree when the current run started
    stack,          \* os.walk: the directories still to yield, next first
    curDir,         \* root of the os.walk tuple being processed
    curFiles,       \* its files not yet reached by "for file in files"
    pc,             \* "walk", "files", "write", "open", "rows", "done",
                    \* "crashed" (sort_videos raised), "aborted" (outer except)
    run,            \* 1, or 2 for a second sort_videos run
    visited,        \* the directories os.walk yielded in this run
    moves,          \* the (old_path, new_path) pairs computed in this run
    failed,         \* old_path of the file whose move raised, or NoPath
    reads,          \* the paths MutagenFile was called on by a walk
    metadata_list,  \* export_music_metadata's list of entries
    out,            \* the export file written
    stored,         \* the tags each file holds on disk
    stored0,        \* the tags when the program started
    rowsRead,       \* the CSV rows the reader has yielded
    lastRow,        \* the last of them
    lastMeta,       \* the metadata dict built from it
    lastOutcome,    \* what became of it
    earlier,        \* what became of the rows before it
    saves           \* the paths audio.save() completed on

cfgVars == << command, pattern, ignore_folders, recursive, dry_run, platform >>
fsVars == << dirs, files, dirs0, files0 >>
walkVars == << stack, curDir, curFiles, pc, run, visited >>
sortVars == << moves, failed >>
exportVars == << reads, metadata_list, out >>
csvVars == << rowsRead, lastRow, lastMeta, lastOutcome, earlier >>
tagVars == << stored, stored0, saves >>
vars == << cfgVars, fsVars, walkVars, sortVars, exportVars, csvVars, tagVars >>

NoPath == << <<"?">> >>

\* ------------------------------------------------------------- file system
\* os.path.exists(p)
Exists(ds, fs, p) == p \in ds \/ p \in DOMAIN fs

MinLen(S) == CHOOSE n \in { Len(q) : q \in S } : \A q \in S : n <= Len(q)

\* os.makedirs(p): every missing directory of p is created, leaf last; it
\* raises at the first component that is a regular file.
Makedirs(ds, fs, p) ==
    LET blocked == { q \in Prefixes(p) : q \in DOMAIN fs }
    IN  IF blocked = {}
        THEN [ok |-> TRUE, dirs |-> ds \cup Prefixes(p)]
        ELSE [ok |-> FALSE,
              dirs |-> ds \cup { q \in Prefixes(p) : Len(q) < MinLen(blocked) }]

MoveTo(fs, old, new) ==
    [p \in (DOMAIN fs \ {old}) \cup {new} |-> IF p = new THEN fs[old] ELSE fs[p]]

\* os.rename(old, new) of a regular file.  Onto itself it does nothing; onto
\* a directory, or into a folder that is none, it raises; onto another
\* regular file it replaces that file on POSIX and raises on Windows.
Rename(ds, fs, old, new, plat) ==
    IF Parent(new) \notin ds \/ new \in ds THEN [ok |-> FALSE, files |-> fs]
    ELSE IF old = new THEN [ok |-> TRUE, files |-> fs]
    ELSE IF new \in DOMAIN fs /\ plat = "nt" THEN [ok |-> FALSE, files |-> fs]
    ELSE [ok |-> TRUE, files |-> MoveTo(fs, old, new)]

\* os.scandir(d) as os.walk splits it.
SubDirs(ds, d) == { p \in ds : Len(p) = Len(d) + 1 /\ Parent(p) = d }
FileNames(fs, d) == { Basename(p) : p \in { q \in DOMAIN fs : Parent(q) = d } }

\* os.path.isfile(text)
IsFile(fs, text) == \E p \in DOMAIN fs : PathStr(p) = text

\* ------------------------------------------------------------------ os.walk
\* Every order of a finite set: the order of a directory listing is the
\* file system's.
RECURSIVE Orders(_)
Orders(S) ==
    IF S = {} THEN { << >> }
    ELSE UNION { { <<x>> \o o : o \in Orders(S \ {x}) } : x \in S }

\* No pruning: every subdirectory is kept for the descent.
KeepAllDirs(subdirs, ignored) == subdirs

\* dirs[:] = [d for d in dirs if d not in self.ignore_folders]
PruneDirs(subdirs, ignored) == { d \in subdirs : Basename(d) \notin ignored }

\* The generator is resumed: the next directory is listed and yielded, and
\* the loop body prunes its subdirectories before the descent.
WalkVisit ==
    /\ pc = "walk"
    /\ stack # << >>
    /\ LET d == Head(stack)
           kept == PruneDirs(SubDirs(dirs, d), ignore_folders)
       IN  /\ \E order \in Orders(kept) : stack' = order \o Tail(stack)
           /\ curDir' = d
           /\ curFiles' = FileNames(files, d)
           /\ visited' = visited \cup {d}
    /\ pc' = "files"
    /\ UNCHANGED << cfgVars, fsVars, run, sortVars, exportVars, csvVars, tagVars >>

\* The files of the directory are done: "if not self.recursive: break", or
\* the walk goes on, and ends when nothing is left to yield.
EndDir ==
    /\ pc = "files"
    /\ curFiles = {}
    /\ IF ~recursive \/ stack = << >>
       THEN /\ pc' = (IF command = "export" THEN "write" ELSE "done")
            /\ stack' = << >>
       ELSE /\ pc' = "walk"
            /\ stack' = stack
    /\ UNCHANGED << cfgVars, fsVars, curDir, curFiles, run, visited,
                    sortVars, exportVars, csvVars, tagVars >>

\* -------------------------------------------------------------- sort_videos
\* The filters of lines 72-74.
Eligible(pat, file) ==
    /\ IsVideo(file)
    /\ ~(pat # << >> /\ ~Contains(pat, file))

\* A dry run that renames all the same.
RenameAlways(dr) == TRUE

\* "if not self.dry_run:" before os.makedirs and before os.rename
MakedirsApplies(dr) == ~dr
RenameApplies(dr) == ~dr

\* One pass of "for file in files" in sort_videos.  An exception of
\* os.makedirs or os.rename is caught nowhere: it ends sort_videos.
SortFile ==
    /\ command = "sort"
    /\ pc = "files"
    /\ \E file \in curFiles :
        /\ curFiles' = curFiles \ {file}
        /\ IF ~Eligible(pattern, file)
           THEN UNCHANGED << fsVars, sortVars, pc >>
           ELSE LET new_folder == NewFolder(curDir, file)
                    new_path == Join(new_folder, file)
                    old_path == Join(curDir, file)
                    made == IF ~Exists(dirs, files, new_folder) /\ MakedirsApplies(dry_run)
                            THEN Makedirs(dirs, files, new_folder)
                            ELSE [ok |-> TRUE, dirs |-> dirs]
                    moved == IF made.ok /\ RenameApplies(dry_run)
                             THEN Rename(made.dirs, files, old_path, new_path, platform)
                             ELSE [ok |-> made.ok, files |-> files]
                IN  /\ moves' = moves \cup { [old |-> old_path, new |-> new_path] }
                    /\ dirs' = made.dirs
                    /\ files' = moved.files
                    /\ pc' = (IF moved.ok THEN pc ELSE "crashed")
                    /\ failed' = (IF moved.ok THEN failed ELSE old_path)
                    /\ UNCHANGED << dirs0, files0 >>
    /\ UNCHANGED << cfgVars, stack, curDir, run, visited, exportVars, csvVars, tagVars >>

\* sort_videos is run again on the tree the first run left, same arguments.
Rerun ==
    /\ command = "sort"
    /\ pc = "done"
    /\ run = 1
    /\ ~dry_run
    /\ run' = 2
    /\ pc' = "walk"
    /\ stack' = << Root >>
    /\ curDir' = Root
    /\ curFiles' = {}
    /\ visited' = {}
    /\ moves' = {}
    /\ dirs0' = dirs
    /\ files0' = files
    /\ UNCHANGED << cfgVars, dirs, files, failed, exportVars, csvVars, tagVars >>

\* ------------------------------------------------------ list_music_metadata
\* One pass of "for file in files" in list_music_metadata: the tags are
\* read and logged, and an exception is caught and logged.
ListFile ==
    /\ command = "list"
    /\ pc = "files"
    /\ \E file \in curFiles :
        /\ curFiles' = curFiles \ {file}
        /\ reads' = (IF IsAudio(file) THEN reads \cup { Join(curDir, file) } ELSE reads)
    /\ UNCHANGED << cfgVars, fsVars, stack, curDir, pc, run, visited, sortVars,
                    metadata_list, out, csvVars, tagVars >>

\* ---------------------------------------------------- export_music_metadata
\* entry = {'file': music_path}, then entry[key] = value for every tag.
Entry(music_path, tags) ==
    [k \in {KeyFile} \cup DOMAIN tags |->
        IF k \in DOMAIN tags THEN tags[k] ELSE Str(PathStr(music_path))]

\* One pass of "for file in files" in export_music_metadata.
ExportFile ==
    /\ command = "export"
    /\ pc = "files"
    /\ \E file \in curFiles :
        LET music_path == Join(curDir, file)
            b == Behaviour(file)
        IN  /\ curFiles' = curFiles \ {file}
            /\ reads' = (IF IsAudio(file) THEN reads \cup {music_path} ELSE reads)
            /\ metadata_list' =
                 (IF IsAudio(file) /\ b \notin {"none", "raise_open"}
                  THEN Append(metadata_list, Entry(music_path, stored[music_path]))
                  ELSE metadata_list)
    /\ UNCHANGED << cfgVars, fsVars, stack, curDir, pc, run, visited, sortVars,
                    out, csvVars, tagVars >>

\* a < b for Python strings: by code point, a proper prefix first.
LexLess(a, b) ==
    \E i \in 1..Len(b) :
        /\ i <= Len(a) + 1
        /\ \A j \in 1..(i - 1) : a[j] = b[j]
        /\ (i = Len(a) + 1 \/ a[i] < b[i])

RECURSIVE Sorted(_)
\* sorted(S)
Sorted(S) ==
    IF S = {} THEN << >>
    ELSE LET least == CHOOSE x \in S : \A y \in S \ {x} : LexLess(x, y)
         IN  << least >> \o Sorted(S \ {least})

\* all_keys of lines 160-163
AllKeys(entries) == Sorted(UNION { DOMAIN entries[i] : i \in 1..Len(entries) })

\* DictWriter.writerow(entry): one cell per field name, restval '' where
\* the entry has no such key.
CsvRow(fieldnames, entry) ==
    [c \in 1..Len(fieldnames) |->
        IF fieldnames[c] \in DOMAIN entry THEN entry[fieldnames[c]] ELSE EmptyCell]

NoOut == [fmt |-> "none", header |-> << >>, rows |-> << >>, objects |-> << >>]

\* Lines 147-171: the list is written as JSON or as CSV; an exception of
\* the writing is caught and leaves no complete file.
ExportWrite ==
    /\ command = "export"
    /\ pc = "write"
    /\ \E export_format \in {"csv", "json"}, ok \in BOOLEAN :
        out' = IF ~ok THEN NoOut
               ELSE IF export_format = "json"
               THEN [fmt |-> "json", header |-> << >>, rows |-> << >>,
                     objects |-> metadata_list]
               ELSE LET all_keys == AllKeys(metadata_list)
                    IN  [fmt |-> "csv", header |-> all_keys,
                         rows |-> [i \in 1..Len(metadata_list) |->
                                       CsvRow(all_keys, metadata_list[i])],
                         objects |-> << >>]
    /\ pc' = "done"
    /\ UNCHANGED << cfgVars, fsVars, stack, curDir, curFiles, run, visited,
                    sortVars, reads, metadata_list, csvVars, tagVars >>

\* ---------------------------------------- overwrite_music_metadata_from_csv
\* The text of a cell is a sequence of tokens.
Punctuation == { "'", "[", "]", "(", ")", "," }
IntTokens == { "123" }
FloatTokens == { "1.5" }

CellEmpty == << >>
CellRockPop == << "[", "'", "Rock", "'", ",", "'", "Pop", "'", "]" >>
CellInt == << "123" >>
CellFloat == << "1.5" >>
CellUnparsed == << "Unparsed" >>
CellQuoted == << "'", "x", "'" >>
CellEmptyList == << "[", "]" >>
CellNone == << "None" >>
CellTuple == << "(", "'", "a", "'", ",", "'", "b", "'", ")" >>

ArtistCells == { CellEmpty, CellRockPop, CellInt, CellFloat, CellUnparsed,
                 CellQuoted, CellEmptyList, CellNone, CellTuple }
GenreCells == { CellEmpty, CellRockPop }

\* One literal that is no container.
ParseAtom(t) ==
    IF Len(t) = 3 /\ t[1] = "'" /\ t[3] = "'" /\ t[2] \notin Punctuation
    THEN [ok |-> TRUE, atom |-> Atom("str", << t[2] >>)]
    ELSE IF Len(t) = 1 /\ t[1] \in IntTokens THEN [ok |-> TRUE, atom |-> Atom("int", t)]
    ELSE IF Len(t) = 1 /\ t[1] \in FloatTokens THEN [ok |-> TRUE, atom |-> Atom("float", t)]
    ELSE IF t = << "None" >> THEN [ok |-> TRUE, atom |-> Atom("none", t)]
    ELSE [ok |-> FALSE, atom |-> Atom("none", t)]

RECURSIVE SplitCommas(_)
SplitCommas(t) ==
    IF \E i \in 1..Len(t) : t[i] = ","
    THEN LET i == CHOOSE k \in 1..Len(t) : t[k] = "," /\ \A j \in 1..(k - 1) : t[j] # ","
         IN  << SubSeq(t, 1, i - 1) >> \o SplitCommas(SubSeq(t, i + 1, Len(t)))
    ELSE << t >>

ParseItems(inner) ==
    IF inner = << >> THEN [ok |-> TRUE, atoms |-> << >>]
    ELSE LET parts == SplitCommas(inner)
         IN  [ok |-> \A i \in 1..Len(parts) : ParseAtom(parts[i]).ok,
              atoms |-> [i \in 1..Len(parts) |-> ParseAtom(parts[i]).atom]]

\* ast.literal_eval(v) on the cell texts above: ok is FALSE where it raises.
LiteralEval(v) ==
    IF Len(v) >= 2 /\ v[1] = "[" /\ v[Len(v)] = "]"
    THEN LET r == ParseItems(SubSeq(v, 2, Len(v) - 1))
         IN  [ok |-> r.ok, value |-> ListOf(r.atoms)]
    ELSE IF Len(v) >= 2 /\ v[1] = "(" /\ v[Len(v)] = ")"
    THEN LET r == ParseItems(SubSeq(v, 2, Len(v) - 1))
         IN  [ok |-> r.ok,
              value |-> IF Len(r.atoms) = 1 THEN Scalar(r.atoms[1]) ELSE TupleOf(r.atoms)]
    ELSE LET a == ParseAtom(v)
         IN  [ok |-> a.ok, value |-> Scalar(a.atom)]

\* Lines 190-198 for one non-empty cell: set says whether metadata[k] is
\* assigned, value is what it is assigned.
Coerce(v) ==
    LET parsed == LiteralEval(v)
    IN  IF ~parsed.ok THEN [set |-> TRUE, value |-> Str(v)]
        ELSE IF parsed.value.kind = "list" /\ parsed.value.items # << >>
        THEN [set |-> TRUE, value |-> Scalar(parsed.value.items[1])]
        ELSE IF parsed.value.kind = "scalar"
                /\ parsed.value.items[1].t \in {"str", "int", "float"}
        THEN [set |-> TRUE, value |-> parsed.value]
        ELSE [set |-> FALSE, value |-> EmptyCell]

\* The metadata dict of lines 185-198.
Metadata(row) ==
    LET keys == { k \in DOMAIN row \ {KeyFile} : row[k] # << >> /\ Coerce(row[k]).set }
    IN  [k \in keys |-> Coerce(row[k]).value]

NoMeta == [k \in {} |-> EmptyCell]
NoRow == (KeyFile :> << >>) @@ (KeyArtist :> << >>) @@ (KeyGenre :> << >>)

OverwriteNames == { SongMp3, NoTagsMp3, BrokenMp3, ReadOnlyMp3, StrictMp3 }
FileCells == { << >>, PathStr(<< GhostMp3 >>) } \cup { PathStr(<< n >>) : n \in OverwriteNames }
RowChoices ==
    { (KeyFile :> f) @@ (KeyArtist :> a) @@ (KeyGenre :> g) :
        f \in FileCells, a \in ArtistCells, g \in GenreCells }

\* audio[key] = value for every key of metadata, then audio.save()
Override(tags, metadata) ==
    [k \in DOMAIN tags \cup DOMAIN metadata |->
        IF k \in DOMAIN metadata THEN metadata[k] ELSE tags[k]]

\* No inner try: an exception of one file reaches the outer except.
AbortOnFileError == "aborted"

\* "except Exception as e:" of line 212: logged, and the loop goes on.
AfterFileError == "rows"

\* "if not self.dry_run:" before audio.save()
SaveApplies(dr) == ~dr

\* with open(csv_path, ...) and csv.DictReader(f); a failure is caught by
\* the outer except.
OpenCsv ==
    /\ command = "overwrite"
    /\ pc = "open"
    /\ \E ok \in BOOLEAN :
        /\ pc' = (IF ok THEN "rows" ELSE "aborted")
        /\ lastOutcome' = (IF ok THEN lastOutcome ELSE "unreadable")
    /\ UNCHANGED << cfgVars, fsVars, stack, curDir, curFiles, run, visited, sortVars,
                    exportVars, rowsRead, lastRow, lastMeta, earlier, tagVars >>

\* The body of "for row in reader" for one row.
OverwriteRow ==
    /\ command = "overwrite"
    /\ pc = "rows"
    /\ rowsRead < MaxRows
    /\ \E row \in RowChoices :
        LET file_path == row[KeyFile]
            present == file_path # << >> /\ IsFile(files, file_path)
            p == IF present THEN CHOOSE q \in DOMAIN files : PathStr(q) = file_path
                 ELSE NoPath
            b == IF present THEN Behaviour(Basename(p)) ELSE "ok"
            metadata == Metadata(row)
            outcome ==
                IF ~present THEN "skipped"
                ELSE IF b = "raise_open" THEN "error"
                ELSE IF b = "none" THEN "unsupported"
                ELSE IF b = "raise_set" /\ DOMAIN metadata # {} THEN "error"
                ELSE IF ~SaveApplies(dry_run) THEN "preview"
                ELSE IF b = "raise_save" THEN "error"
                ELSE "saved"
        IN  /\ rowsRead' = rowsRead + 1
            /\ lastRow' = row
            /\ lastMeta' = (IF present THEN metadata ELSE NoMeta)
            /\ lastOutcome' = outcome
            /\ earlier' = (IF rowsRead = 0 THEN earlier ELSE earlier \cup {lastOutcome})
            /\ stored' = (IF outcome = "saved"
                          THEN [stored EXCEPT ![p] = Override(@, metadata)]
                          ELSE stored)
            /\ saves' = (IF outcome = "saved" THEN saves \cup {p} ELSE saves)
            /\ pc' = (IF outcome = "error" THEN AfterFileError ELSE "rows")
    /\ UNCHANGED << cfgVars, fsVars, stack, curDir, curFiles, run, visited, sortVars,
                    exportVars, stored0 >>

\* The reader raises instead of yielding a row (csv.Error, a decoding
\* error): the outer except ends the operation.
CsvReadError ==
    /\ command = "overwrite"
    /\ pc = "rows"
    /\ pc' = "aborted"
    /\ lastOutcome' = "unreadable"
    /\ UNCHANGED << cfgVars, fsVars, stack, curDir, curFiles, run, visited, sortVars,
                    exportVars, rowsRead, lastRow, lastMeta, earlier, tagVars >>

\* The reader is exhausted.
CsvEnd ==
    /\ command = "overwrite"
    /\ pc = "rows"
    /\ pc' = "done"
    /\ UNCHANGED << cfgVars, fsVars, stack, curDir, curFiles, run, visited, sortVars,
                    exportVars, csvVars, tagVars >>

\* --------------------------------------------------------------------- Init
RECURSIVE UpTo(_, _)
\* The subsets of S of at most k elements.
UpTo(S, k) ==
    IF k = 0 THEN { {} }
    ELSE LET less == UpTo(S, k - 1)
         IN  less \cup { T \cup {x} : T \in less, x \in S }

VideoTrees ==
    { { Root },
      { Root, <<DirA>> },
      { Root, <<DirA>>, <<DirA, DirB>> },
      { Root, <<DirA>>, <<SortedVideosName>> },
      { Root, <<SortedVideosName>>, <<SortedVideosName, LeadingX>> } }

AudioTrees ==
    { { Root },
      { Root, <<DirA>> },
      { Root, <<DirA>>, <<DirA, DirB>> } }

Places(tree, names) == { Join(d, n) : d \in tree, n \in names } \ tree

IgnoreChoices == { {}, {DirA}, {DirectoryName} }
PatternChoices == { << >>, <<"0","1","1","5">> }

\* sort-videos on a tree of videos
InitSort ==
    /\ command = "sort"
    /\ \E tree \in VideoTrees :
        /\ dirs = tree
        /\ \E S \in UpTo(Places(tree, VideoTreeNames), MaxFiles) :
               files = [p \in S |-> p]
    /\ pattern \in PatternChoices
    /\ ignore_folders \in IgnoreChoices
    /\ recursive \in BOOLEAN
    /\ dry_run \in BOOLEAN
    /\ platform \in {"posix", "nt"}
    /\ pc = "walk"
    /\ stack = << Root >>

\* list-music-metadata or export-music-metadata on a tree of audio files;
\* neither reads self.pattern or self.dry_run
InitAudioWalk ==
    /\ command \in {"list", "export"}
    /\ \E tree \in AudioTrees :
        /\ dirs = tree
        /\ \E S \in UpTo(Places(tree, AudioTreeNames), MaxFiles) :
               files = [p \in S |-> p]
    /\ pattern = << >>
    /\ ignore_folders \in IgnoreChoices
    /\ recursive \in BOOLEAN
    /\ dry_run = FALSE
    /\ platform = "posix"
    /\ pc = "walk"
    /\ stack = << Root >>

\* overwrite-music-metadata: the files its CSV may name lie in self.directory
InitOverwrite ==
    /\ command = "overwrite"
    /\ dirs = { Root }
    /\ files = [p \in { << n >> : n \in OverwriteNames } |-> p]
    /\ pattern = << >>
    /\ ignore_folders = {}
    /\ recursive = FALSE
    /\ dry_run \in BOOLEAN
    /\ platform = "posix"
    /\ pc = "open"
    /\ stack = << >>

Init ==
    /\ (InitSort \/ InitAudioWalk \/ InitOverwrite)
    /\ dirs0 = dirs
    /\ files0 = files
    /\ curDir = Root
    /\ curFiles = {}
    /\ run = 1
    /\ visited = {}
    /\ moves = {}
    /\ failed = NoPath
    /\ reads = {}
    /\ metadata_list = << >>
    /\ out = NoOut
    /\ stored = [p \in { q \in DOMAIN files : IsAudio(Basename(q)) } |-> InitialTags(Basename(p))]
    /\ stored0 = stored
    /\ rowsRead = 0
    /\ lastRow = NoRow
    /\ lastMeta = NoMeta
    /\ lastOutcome = "none"
    /\ earlier = {}
    /\ saves = {}

Next ==
    \/ WalkVisit
    \/ EndDir
    \/ SortFile
    \/ Rerun
    \/ ListFile
    \/ ExportFile
    \/ ExportWrite
    \/ OpenCsv
    \/ OverwriteRow
    \/ CsvReadError
    \/ CsvEnd

Spec == Init /\ [][Next]_vars

\* ------------------------------------------------------------------- claims
\* The whole name is 8 digits, "_", 6 digits, ".", an allowed extension.
WholeNameIsDateTime(file) ==
    /\ Len(file) = 19
    /\ \A i \in (1..8) \cup (10..15) : file[i] \in Digits
    /\ file[9] = "_"
    /\ file[16] = "."
    /\ \E e \in VideoExts : \A i \in 1..3 : LowerChar(file[16 + i]) = e[i]

ExpectedDestination(file) ==
    IF WholeNameIsDateTime(file)
    THEN << SubSeq(file, 1, 4), SubSeq(file, 5, 6), SubSeq(file, 7, 8), file >>
    ELSE << SortedVideosName, file >>

\* C1: in sort_videos every destination computed is that of an eligible
\* file, and is self.directory/YYYY/MM/DD/name when the whole name is a
\* date-time name and self.directory/SortedVideos/name otherwise, whatever
\* directory the file was found in; and when a dry run ends, every eligible
\* file of every directory visited has had its destination computed.
C1_Destination ==
    command = "sort" =>
        /\ \A m \in moves :
            /\ IsVideo(Basename(m.old))
            /\ pattern # << >> => Contains(pattern, Basename(m.old))
            /\ m.new = ExpectedDestination(Basename(m.old))
        /\ (dry_run /\ pc = "done") =>
            \A p \in DOMAIN files :
                (Parent(p) \in visited /\ Eligible(pattern, Basename(p)))
                    => [old |-> p, new |-> ExpectedDestination(Basename(p))] \in moves

\* C1 witness: two files found in subdirectory A, one with an odd date and
\* an upper-case extension, one with a character before the date.
C1_Witness ==
    /\ command = "sort"
    /\ [old |-> << DirA, OddDateMOV >>,
        new |-> << <<"2","0","2","3">>, <<"1","3">>, <<"4","5">>, OddDateMOV >>] \in moves
    /\ [old |-> << DirA, LeadingX >>, new |-> << SortedVideosName, LeadingX >>] \in moves

\* C2: with dry_run set, no directory is created, no file is moved, save is
\* never called and the stored tags are those the program started with.
C2_DryRunChangesNothing ==
    dry_run =>
        /\ dirs = dirs0
        /\ files = files0
        /\ saves = {}
        /\ stored = stored0

\* C2 witness: a dry run of sort_videos has ended after computing a move
\* into a folder that does not exist.
C2_Witness ==
    /\ dry_run
    /\ command = "sort"
    /\ pc = "done"
    /\ \E m \in moves : Parent(m.new) \notin dirs /\ m.old \in DOMAIN files

\* C3: no file present when a sort_videos run started is destroyed by it:
\* each is still somewhere in the tree.
C3_NothingDestroyed ==
    command = "sort" =>
        \A p \in DOMAIN files0 : \E q \in DOMAIN files : files[q] = files0[p]

\* The directories the walk has yet to list: those on the stack and, in
\* recursive mode, what lies below them and is not pruned.
StillToVisit ==
    IF ~recursive THEN {}
    ELSE { d \in dirs :
             \E i \in 1..Len(stack) :
                 /\ Len(stack[i]) <= Len(d)
                 /\ SubSeq(d, 1, Len(stack[i])) = stack[i]
                 /\ \A k \in (Len(stack[i]) + 1)..Len(d) : d[k] \notin ignore_folders }

\* C8: when a move has raised, every other eligible file of the walk whose
\* destination is free has been moved: none is left among the files of the
\* directory being processed or in a directory still to visit.
C8_FailureConfined ==
    (command = "sort" /\ pc = "crashed") =>
        \A p \in DOMAIN files :
            ( /\ p # failed
              /\ Eligible(pattern, Basename(p))
              /\ ~Exists(dirs, files, ExpectedDestination(Basename(p)))
              /\ \/ Parent(p) = curDir /\ Basename(p) \in curFiles
                 \/ Parent(p) \in StillToVisit )
            => FALSE

\* C9: throughout a second sort_videos run with the same arguments nothing
\* raises and every file is where the first run left it.
C9_SecondRunChangesNothing ==
    (command = "sort" /\ run = 2) => (pc # "crashed" /\ files = files0)

\* C9 witness: a second recursive run has ended after it visited a date
\* folder and computed, for a file in it, the path the file is at.
C9_Witness ==
    /\ command = "sort"
    /\ run = 2
    /\ pc = "done"
    /\ recursive
    /\ \E m \in moves : m.old = m.new /\ Len(m.old) = 4 /\ m.old \in DOMAIN files

\* The name of the directory at path d: self.directory's own name for << >>.
NameOf(d) == IF d = Root THEN DirectoryName ELSE Basename(d)

BelowIgnored(p) == \E k \in 1..Len(p) : p[k] \in ignore_folders

\* C6 as stated: no directory whose name is in ignore_folders is yielded,
\* self.directory included, and nothing below one is visited, moved or read.
C6_NoIgnoredDirectoryYielded ==
    /\ \A d \in visited : NameOf(d) \notin ignore_folders /\ ~BelowIgnored(d)
    /\ \A m \in moves : ~BelowIgnored(Parent(m.old))
    /\ \A p \in reads : ~BelowIgnored(Parent(p))

\* C6 amended: no directory other than self.directory whose name is in
\* ignore_folders is yielded, and nothing below one is visited; no file
\* below one has a destination computed, is moved or has its tags read.
C6_NoIgnoredSubdirectoryYielded ==
    /\ \A d \in visited : ~BelowIgnored(d)
    /\ \A m \in moves : ~BelowIgnored(Parent(m.old))
    /\ \A p \in reads : ~BelowIgnored(Parent(p))
    /\ \A p \in DOMAIN files0 :
           BelowIgnored(Parent(p)) => (p \in DOMAIN files /\ files[p] = files0[p])

\* C6 witness: a recursive walk has ended with A ignored, having visited
\* self.directory only, while files lie in A and in A/B.
C6_Witness ==
    /\ recursive
    /\ ignore_folders = { DirA }
    /\ pc = "done"
    /\ visited = { Root }
    /\ \E p \in DOMAIN files : Parent(p) = << DirA >>
    /\ \E p \in DOMAIN files : Parent(p) = << DirA, DirB >>

\* C5: the header of a CSV export is the sorted union of the keys of all
\* records and 'file', also for an empty batch, and every row has one cell
\* per header column.
C5_HeaderIsSortedUnionPlusFile ==
    out.fmt = "csv" =>
        /\ out.header = Sorted({KeyFile} \cup UNION { DOMAIN metadata_list[i] :
                                                      i \in 1..Len(metadata_list) })
        /\ Len(out.rows) = Len(metadata_list)
        /\ \A i \in 1..Len(out.rows) : Len(out.rows[i]) = Len(out.header)

\* C10: the 'file' field of every record collected is the path of an audio
\* file that was read, and no two records have the same.
C10_FileFieldIsThePath ==
    command = "export" =>
        /\ \A i \in 1..Len(metadata_list) :
               \E p \in reads : metadata_list[i][KeyFile] = Str(PathStr(p))
        /\ \A i, j \in 1..Len(metadata_list) :
               i # j => metadata_list[i][KeyFile] # metadata_list[j][KeyFile]

\* What the claim says a non-empty cell is coerced to, for its examples.
ClaimedValue(cell, value) ==
    /\ cell = CellRockPop => value = Str(<< "Rock" >>)
    /\ cell = CellInt => value = Scalar(Atom("int", << "123" >>))
    /\ cell = CellUnparsed => value = Str(<< "Unparsed" >>)

\* C4: for a row whose file exists, every non-empty cell of a column other
\* than 'file' gives the metadata a value for that column.
C4_EveryNonEmptyCellApplied ==
    (command = "overwrite" /\ rowsRead > 0 /\ lastOutcome \notin {"skipped", "unreadable"}) =>
        \A k \in DOMAIN lastRow \ {KeyFile} :
            lastRow[k] # << >> =>
                (k \in DOMAIN lastMeta /\ ClaimedValue(lastRow[k], lastMeta[k]))

\* The row names a file that exists and that the tag store opens, sets
\* and saves without raising.
RowIsValid(row) ==
    /\ IsFile(files, row[KeyFile])
    /\ \E p \in DOMAIN files : PathStr(p) = row[KeyFile] /\ Behaviour(Basename(p)) = "ok"

\* C7: after a row that was skipped (no file), unsupported, or raised, the
\* batch goes on; and a valid row, whatever came before it, is applied:
\* previewed in a dry run, otherwise saved with every value of its metadata.
C7_RowFailureDoesNotStopBatch ==
    command = "overwrite" =>
        /\ lastOutcome \in {"skipped", "unsupported", "error"} => pc \in {"rows", "done"}
        /\ (rowsRead > 0 /\ lastOutcome # "unreadable" /\ RowIsValid(lastRow)) =>
            /\ lastOutcome = (IF dry_run THEN "preview" ELSE "saved")
            /\ ~dry_run =>
                 \E p \in DOMAIN files :
                     /\ PathStr(p) = lastRow[KeyFile]
                     /\ \A k \in DOMAIN lastMeta : stored[p][k] = lastMeta[k]

\* C7 witness: after a row that raised, a valid row was saved with the
\* first element of its list.
C7_Witness ==
    /\ command = "overwrite"
    /\ "error" \in earlier
    /\ lastOutcome = "saved"
    /\ lastRow[KeyArtist] = CellRockPop
    /\ stored[<< SongMp3 >>][KeyArtist] = Str(<< "Rock" >>)

====
